---- MODULE Spec2Model ----
(***************************************************************************)
(* Model of datawire/k8sutil, watch.go: the WatchingStore (the cache of    *)
(* listed and watched resources), its coordinator WatchingStore.run and    *)
(* the per-registration goroutine watch.run.                               *)
(*                                                                         *)
(* The client (github.com/ericchiang/k8s) is external: what List, Watch    *)
(* and Next return is drawn from bounded sets.  The value carried by a     *)
(* channel send is read by nobody before the matching receive, so it is    *)
(* drawn at the receive.                                                   *)
(***************************************************************************)
EXTENDS Integers, Sequences, FiniteSets, TLC

VARIABLES
  watches,    \* w.watches: the registrations, here the kind of each
  store,      \* w.store: kind -> (uid -> record)
  ctxDone,    \* the context given to Run has been canceled
  pc,         \* where the goroutine that called Run is
  retErr,     \* what Run returned
  round,      \* calls of w.run so far: "none", "first", "later"
  scopeDone,  \* cancelCtx() of the current w.run has been called
  nSess,      \* number of goroutines launched by the current w.run
  listCnt,    \* listCnt of the current w.run
  exitCnt,    \* exitCnt of the current w.run
  dirty,      \* dirty of the current w.run
  newUids,    \* newUids of the current w.run
  sess,       \* the launched goroutines: position and the watch they run
  cbCount,    \* calls of w.callback made by the current w.run
  evCount,    \* watch events received by the current w.run
  snapshot,   \* the Store value handed to the first callback of w.run
  seen,       \* the store as that callback saw it
  hist        \* history of the current w.run, used to state the claims

vars == <<watches, store, ctxDone, pc, retErr, round, scopeDone, nSess,
          listCnt, exitCnt, dirty, newUids, sess, cbCount, evCount,
          snapshot, seen, hist>>

----------------------------------------------------------------------------
(* Bounds and value sets *)

MaxWatches == 2
MaxEvents == 1

Kinds == {"A", "B"}
Uids == {"u1", "u2"}

\* ObjectMeta.ResourceVersion is a *string: NoRV is the nil pointer, whose
\* GetResourceVersion() is "".
NoRV == ""
RVs == {NoRV, "v1", "v2"}

EventTypes == {"ADDED", "MODIFIED", "DELETED", "ERROR"}

EmptyMap == << >>

\* What List returns for a kind, as uid -> resourceVersion (the items of
\* one listing have distinct uids): nothing, one item, that item at another
\* version beside a second item.
Listings(k) ==
  {EmptyMap, "u1" :> "v1", ("u1" :> "v2") @@ ("u2" :> "v1")}

Events(k) == [eventType : EventTypes, kind : {k}, uid : Uids, rv : RVs]

MapPut(m, key, v) == [x \in (DOMAIN m) \cup {key} |-> IF x = key THEN v ELSE m[x]]

MapDel(m, key) == [x \in (DOMAIN m) \ {key} |-> m[x]]

\* m[key] of a Go map of maps: the nil map when key is absent.
MapGet(m, key) == IF key \in DOMAIN m THEN m[key] ELSE EmptyMap

Range(f) == {f[x] : x \in DOMAIN f}

----------------------------------------------------------------------------
(* The context *)

\* ctx.Err() != nil for the context of w.run: cancelCtx was called or the
\* parent was canceled.
ScopeDone == ctxDone \/ scopeDone

\* The caller cancels the context given to Run.
Cancel ==
  /\ ~ctxDone
  /\ ctxDone' = TRUE
  /\ UNCHANGED <<watches, store, pc, retErr, round, scopeDone, nSess, listCnt,
                 exitCnt, dirty, newUids, sess, cbCount, evCount, snapshot,
                 seen, hist>>

----------------------------------------------------------------------------
(* Registration and Run *)

\* AddWatch(namespace, resourceList): appends, whatever the engine is doing.
\* The namespace only reaches the client, so a registration is its kind.
AddWatch(k) ==
  /\ Len(watches) < MaxWatches
  /\ watches' = Append(watches, k)
  /\ UNCHANGED <<store, ctxDone, pc, retErr, round, scopeDone, nSess, listCnt,
                 exitCnt, dirty, newUids, sess, cbCount, evCount, snapshot,
                 seen, hist>>

\* The caller calls Run.
CallRun ==
  /\ pc = "idle"
  /\ pc' = "top"
  /\ UNCHANGED <<watches, store, ctxDone, retErr, round, scopeDone, nSess,
                 listCnt, exitCnt, dirty, newUids, sess, cbCount, evCount,
                 snapshot, seen, hist>>

\* ctx.Err() of the context given to Run.
CtxErr == IF ctxDone THEN "Canceled" ELSE "nil"

\* A Run that returns ctx.Err() after any round.
RunReturnAfterRound ==
  /\ pc = "top"
  /\ round # "none"
  /\ pc' = "returned"
  /\ retErr' = CtxErr
  /\ UNCHANGED <<watches, store, ctxDone, round, scopeDone, nSess, listCnt,
                 exitCnt, dirty, newUids, sess, cbCount, evCount, snapshot,
                 seen, hist>>

\* Run, lines 58-60: ctx.Err() is non-nil, Run returns it.
RunReturn ==
  /\ pc = "top"
  /\ CtxErr # "nil"
  /\ pc' = "returned"
  /\ retErr' = CtxErr
  /\ UNCHANGED <<watches, store, ctxDone, round, scopeDone, nSess, listCnt,
                 exitCnt, dirty, newUids, sess, cbCount, evCount, snapshot,
                 seen, hist>>

\* The goroutines of lines 76-81.  The closure reads the loop variable
\* `watch` when it first runs, unsynchronised with the loop that writes it:
\* goroutine i runs the watch of its own iteration or of a later one.
Launch(ws) ==
  {s \in [1..Len(ws) -> [pc : {"list"}, kind : Kinds]] :
     \A i \in 1..Len(ws) : \E j \in i..Len(ws) : s[i].kind = ws[j]}

\* Lines 85-92: every registered kind gets a map in the store.
InitStore(st, ws) == [k \in (DOMAIN st) \cup Range(ws) |-> MapGet(st, k)]

InitDirty(st, ws) == Range(ws) \ (DOMAIN st) # {}

NoEvent == [eventType |-> "-", kind |-> "-", uid |-> "-", rv |-> NoRV]

\* same: every record listed so far in the round equals the stored one;
\* changed: the round has changed the store; expired: an Expired exit was
\* received with every listing delivered; aborted: the first exit of the
\* round was received before every listing was delivered; stale: the round
\* before this one was so aborted and had changed the store; event: the
\* last event received.  A first round starts from the empty store, and a
\* later one changes the store by its merges only, so a round that has
\* changed a store that holds a record has merged a record into it.
InitHist ==
  [same |-> TRUE, changed |-> FALSE, expired |-> FALSE, aborted |-> FALSE,
   stale |-> FALSE, event |-> NoEvent]

\* Run, line 61, and w.run, lines 66-92.
RunRound ==
  /\ pc = "top"
  /\ ~ctxDone
  /\ round' = IF round = "none" THEN "first" ELSE "later"
  /\ nSess' = Len(watches)
  /\ sess' \in Launch(watches)
  /\ store' = InitStore(store, watches)
  /\ dirty' = InitDirty(store, watches)
  /\ newUids' = [k \in Range(watches) |-> {}]
  /\ listCnt' = 0
  /\ exitCnt' = 0
  /\ scopeDone' = FALSE
  /\ cbCount' = 0
  /\ evCount' = 0
  /\ hist' = [InitHist EXCEPT !.changed = (store' # store),
                              !.stale = hist.stale]
  /\ pc' = "catchup"
  /\ UNCHANGED <<watches, ctxDone, retErr, snapshot, seen>>

----------------------------------------------------------------------------
(* watch.run, one goroutine per registration *)

SetPc(i, p) == [sess EXCEPT ![i].pc = p]

\* A goroutine that has sent on exitCh is over and holds nothing.
Terminated == [pc |-> "done", kind |-> "-"]

\* Lines 244-256 up to the send on listCh: return when the scope is done,
\* else List; a failed List is retried.
SessList(i) ==
  /\ i \in DOMAIN sess
  /\ sess[i].pc = "list"
  /\ IF ScopeDone
       THEN sess' = SetPc(i, "exit")
       ELSE \E ok \in BOOLEAN :
              sess' = SetPc(i, IF ok THEN "sendList" ELSE "list")
  /\ UNCHANGED <<watches, store, ctxDone, pc, retErr, round, scopeDone, nSess,
                 listCnt, exitCnt, dirty, newUids, cbCount, evCount, snapshot,
                 seen, hist>>

\* A goroutine that lists again when its watch fails.
WatchRetryRelists == "list"

\* Lines 268 and 279: after a failure other than 410 Gone the goroutine is
\* back at the top of the loop of line 257, which opens the watch again.
WatchRetryPc == "watch"

\* Lines 257-269: return when the scope is done, else open the watch; 410
\* Gone ends the goroutine, any other failure is retried.  "exit" and
\* "expired" are both the send of line 79, reached by a return on
\* cancellation and by a return on 410 Gone.
SessWatch(i) ==
  /\ i \in DOMAIN sess
  /\ sess[i].pc = "watch"
  /\ IF ScopeDone
       THEN sess' = SetPc(i, "exit")
       ELSE \E r \in {"ok", "gone", "err"} :
              sess' = CASE r = "ok" -> SetPc(i, "next")
                        [] r = "gone" -> SetPc(i, "expired")
                        [] OTHER -> SetPc(i, WatchRetryPc)
  /\ UNCHANGED <<watches, store, ctxDone, pc, retErr, round, scopeDone, nSess,
                 listCnt, exitCnt, dirty, newUids, cbCount, evCount, snapshot,
                 seen, hist>>

\* Lines 270-283 up to the send on watchCh: watcher.Next returns an event,
\* 410 Gone (the goroutine ends) or another failure (the watch is reopened).
SessNext(i) ==
  /\ i \in DOMAIN sess
  /\ sess[i].pc = "next"
  /\ \E r \in {"event", "gone", "err"} :
       /\ sess' = CASE r = "event" -> SetPc(i, "sendEvent")
                    [] r = "gone" -> SetPc(i, "expired")
                    [] OTHER -> SetPc(i, WatchRetryPc)
  /\ UNCHANGED <<watches, store, ctxDone, pc, retErr, round, scopeDone, nSess,
                 listCnt, exitCnt, dirty, newUids, cbCount, evCount, snapshot,
                 seen, hist>>

----------------------------------------------------------------------------
(* WatchingStore.run: the loop of lines 93-119 *)

\* A merge that replaces every listed record.
ListReplacesAlways(m, uid, rv) == TRUE

\* Line 102: the stored record is replaced when the uid is new or when the
\* two GetResourceVersion() strings differ.
ListReplaces(m, uid, rv) == uid \notin DOMAIN m \/ m[uid] # rv

\* Lines 96-106 for one listing of kind k (its items have distinct uids).
MergeList(st, nu, d, k, list) ==
  [store   |-> [st EXCEPT ![k] =
                  [u \in (DOMAIN st[k]) \cup (DOMAIN list) |->
                     IF u \in DOMAIN list /\ ListReplaces(st[k], u, list[u])
                       THEN list[u] ELSE st[k][u]]],
   newUids |-> [nu EXCEPT ![k] = nu[k] \cup DOMAIN list],
   dirty   |-> d \/ \E u \in DOMAIN list : ListReplaces(st[k], u, list[u])]

\* A listCh case that notifies as soon as a listing changed the store.
ListCallbacksEager(d) == IF d THEN 1 ELSE 0

\* Calls of w.notify() in the listCh case (lines 95-111): none.
ListCallbacks(d) == 0

\* Line 110: `break` inside a select leaves the select, not the enclosing
\* for, so control is back at line 93.
BreakTarget == "catchup"

\* A length that lets w.run return at the first exit it receives.
LenReadsFirstExit == {1}

\* len(w.watches), read at lines 109, 115 and 158 with no synchronisation
\* with AddWatch: the length at launch, the current one, or one in between.
LenReads == nSess..Len(watches)

\* case list := <-listCh (lines 95-111), with the send of line 254.
RecvList(i) ==
  /\ pc = "catchup"
  /\ i \in DOMAIN sess
  /\ sess[i].pc = "sendList"
  /\ \E list \in Listings(sess[i].kind) :
       LET k == sess[i].kind
           m == MergeList(store, newUids, dirty, k, list)
       IN /\ store' = m.store
          /\ newUids' = m.newUids
          /\ dirty' = m.dirty
          /\ hist' = [hist EXCEPT
                        !.same = @ /\ \A u \in DOMAIN list :
                                   u \in DOMAIN store[k] /\ store[k][u] = list[u],
                        !.changed = @ \/ m.store # store]
  /\ listCnt' = listCnt + 1
  /\ cbCount' = cbCount + ListCallbacks(dirty')
  /\ \E n \in LenReads : pc' = IF listCnt' = n THEN BreakTarget ELSE "catchup"
  /\ sess' = SetPc(i, "watch")
  /\ UNCHANGED <<watches, ctxDone, retErr, round, scopeDone, nSess, exitCnt,
                 evCount, snapshot, seen>>

\* case <-exitCh (lines 112-118), with the send of line 79.  On return the
\* locals of w.run are gone: they are put back to their zero values.
RecvExit(i) ==
  /\ pc = "catchup"
  /\ i \in DOMAIN sess
  /\ sess[i].pc \in {"exit", "expired"}
  /\ sess' = [sess EXCEPT ![i] = Terminated]
  /\ \E n \in LenReads :
       IF exitCnt + 1 = n
         THEN /\ pc' = "top"
              /\ scopeDone' = FALSE
              /\ exitCnt' = 0
              /\ listCnt' = 0
              /\ dirty' = FALSE
              /\ newUids' = EmptyMap
              /\ hist' = [InitHist EXCEPT !.stale =
                             /\ hist.changed
                             /\ \E k \in DOMAIN store : store[k] # EmptyMap
                             /\ hist.aborted \/ (exitCnt = 0 /\ listCnt < nSess)]
         ELSE /\ pc' = "catchup"
              /\ scopeDone' = TRUE
              /\ exitCnt' = exitCnt + 1
              /\ hist' = [hist EXCEPT
                            !.expired = @ \/ (sess[i].pc = "expired" /\ listCnt = nSess),
                            !.aborted = @ \/ (exitCnt = 0 /\ listCnt < nSess)]
              /\ UNCHANGED <<listCnt, dirty, newUids>>
  /\ UNCHANGED <<watches, store, ctxDone, retErr, round, nSess, cbCount,
                 evCount, snapshot, seen>>

----------------------------------------------------------------------------
(* The program *)

NoSnapshot == [ref |-> "none"]

Init ==
  /\ watches = << >>
  /\ store = EmptyMap
  /\ ctxDone = FALSE
  /\ pc = "idle"
  /\ retErr = "none"
  /\ round = "none"
  /\ scopeDone = FALSE
  /\ nSess = 0
  /\ listCnt = 0
  /\ exitCnt = 0
  /\ dirty = FALSE
  /\ newUids = EmptyMap
  /\ sess = << >>
  /\ cbCount = 0
  /\ evCount = 0
  /\ snapshot = NoSnapshot
  /\ seen = EmptyMap
  /\ hist = InitHist

\* What the program itself does, the caller's steps left out.
ProgramStep ==
  \/ RunReturn
  \/ RunRound
  \/ \E i \in 1..MaxWatches : SessList(i)
  \/ \E i \in 1..MaxWatches : SessWatch(i)
  \/ \E i \in 1..MaxWatches : SessNext(i)
  \/ \E i \in 1..MaxWatches : RecvList(i)
  \/ \E i \in 1..MaxWatches : RecvExit(i)

\* The caller registers before calling Run, as the interface asks.
Next ==
  \/ \E k \in Kinds : pc = "idle" /\ AddWatch(k)
  \/ CallRun
  \/ Cancel
  \/ ProgramStep

Spec == Init /\ [][Next]_vars

\* The same program with a caller that also registers after calling Run.
NextLate ==
  \/ Next
  \/ \E k \in Kinds : pc # "idle" /\ AddWatch(k)

SpecLate == Init /\ [][NextLate]_vars

----------------------------------------------------------------------------
(* WatchingStore.run from line 120 on.  The loop of lines 93-119 is only   *)
(* left by the return of line 116 (BreakTarget), so no behaviour of Spec    *)
(* gets here; the lines are checked on their own, as the function of the    *)
(* store, newUids, dirty and the received events that they are, from the    *)
(* states in which every goroutine has delivered its listing.               *)

\* newUids[rt][uid] of line 122: false for a kind with no entry.
Observed(nu, k) == IF k \in DOMAIN nu THEN nu[k] ELSE {}

\* Lines 120-127.
SweepStore(st, nu) ==
  [k \in DOMAIN st |->
     [u \in {x \in DOMAIN st[k] : x \in Observed(nu, k)} |-> st[k][u]]]

SweepDirty(st, nu) ==
  \E k \in DOMAIN st : \E u \in DOMAIN st[k] : u \notin Observed(nu, k)

\* notify, lines 48-50: mapStore(w.store) converts the type of the map
\* value; the Store the callback gets is the map the coordinator mutates.
Snapshot == [ref |-> "w.store"]

\* mapStore.List, lines 30-37, on the value the callback holds: the
\* records of the kind that the map it refers to holds at that moment.
Records(m) == {<<u, m[u]>> : u \in DOMAIN m}

SnapshotList(snap, k) ==
  IF snap.ref = "w.store" THEN Records(MapGet(store, k)) ELSE {}

\* Line 148 compares the two ObjectMeta.ResourceVersion fields, which are
\* *string: the pointers, not the strings.  The event's resource is decoded
\* into a new object (line 271), so the pointers are equal only when both
\* are nil.
SamePointer(oldRv, newRv) == oldRv = NoRV /\ newRv = NoRV

\* A Deleted case that notifies whether or not the uid was stored.
DeleteNotifiesAlways(existed) == TRUE

\* Lines 143-145: notify is called if the uid was in the store.
DeleteNotifies(existed) == existed

\* Lines 135-154 for one event of kind k: the new store, whether notify is
\* called, whether the goroutine panics (a method call on the nil
\* oldResource of line 147, or line 153).
ApplyEvent(st, k, ev) ==
  LET m == MapGet(st, k)
      existed == ev.uid \in DOMAIN m
  IN CASE ev.eventType = "DELETED" ->
            [store |-> IF k \in DOMAIN st
                         THEN [st EXCEPT ![k] = MapDel(m, ev.uid)] ELSE st,
             notify |-> DeleteNotifies(existed), panic |-> FALSE]
       [] ev.eventType \in {"ADDED", "MODIFIED"} ->
            IF ~existed
              THEN [store |-> st, notify |-> FALSE, panic |-> TRUE]
              ELSE IF ~SamePointer(m[ev.uid], ev.rv)
                THEN [store |-> [st EXCEPT ![k] = MapPut(m, ev.uid, ev.rv)],
                      notify |-> TRUE, panic |-> FALSE]
                ELSE [store |-> st, notify |-> FALSE, panic |-> FALSE]
       [] OTHER -> [store |-> st, notify |-> FALSE, panic |-> TRUE]

\* Lines 120-131: the sweep, then one callback if anything changed.
Checkpoint ==
  /\ pc = "sweep"
  /\ store' = SweepStore(store, newUids)
  /\ dirty' = (dirty \/ SweepDirty(store, newUids))
  /\ cbCount' = cbCount + (IF dirty' THEN 1 ELSE 0)
  /\ IF dirty' /\ snapshot = NoSnapshot
       THEN snapshot' = Snapshot /\ seen' = store'
       ELSE UNCHANGED <<snapshot, seen>>
  /\ pc' = "steady"
  /\ UNCHANGED <<watches, ctxDone, retErr, round, scopeDone, nSess, listCnt,
                 exitCnt, newUids, sess, evCount, hist>>

\* case event := <-watchCh (lines 134-154), with the send of line 282.
SteadyEvent(i) ==
  /\ pc = "steady"
  /\ i \in DOMAIN sess
  /\ sess[i].pc = "sendEvent"
  /\ evCount < MaxEvents
  /\ evCount' = evCount + 1
  /\ \E ev \in Events(sess[i].kind) :
       LET r == ApplyEvent(store, sess[i].kind, ev)
       IN /\ store' = r.store
          /\ pc' = IF r.panic THEN "panicked" ELSE "steady"
          /\ hist' = [hist EXCEPT !.event = ev]
          /\ cbCount' = cbCount + (IF r.notify THEN 1 ELSE 0)
          /\ IF r.notify /\ snapshot = NoSnapshot
               THEN snapshot' = Snapshot /\ seen' = r.store
               ELSE UNCHANGED <<snapshot, seen>>
  /\ sess' = SetPc(i, "next")
  /\ UNCHANGED <<watches, ctxDone, retErr, round, scopeDone, nSess, listCnt,
                 exitCnt, dirty, newUids>>

\* case <-exitCh (lines 155-161), with the send of line 79.
SteadyExit(i) ==
  /\ pc = "steady"
  /\ i \in DOMAIN sess
  /\ sess[i].pc \in {"exit", "expired"}
  /\ sess' = [sess EXCEPT ![i] = Terminated]
  /\ scopeDone' = TRUE
  /\ exitCnt' = exitCnt + 1
  /\ hist' = [hist EXCEPT !.expired = @ \/ sess[i].pc = "expired"]
  /\ \E n \in LenReads : pc' = IF exitCnt' = n THEN "top" ELSE "steady"
  /\ UNCHANGED <<watches, store, ctxDone, retErr, round, nSess, listCnt, dirty,
                 newUids, cbCount, evCount, snapshot, seen>>

\* The stores and observed uids the lines are tried on, per kind.
TailMaps ==
  {EmptyMap, "u1" :> "v1", "u1" :> NoRV, ("u1" :> "v2") @@ ("u2" :> "v1")}

TailWatches == <<"A", "B">>

InitTail ==
  /\ watches = TailWatches
  /\ store \in [Kinds -> TailMaps]
  /\ newUids \in [Kinds -> {{}, {"u1"}, {"u1", "u2"}}]
  /\ dirty \in BOOLEAN
  /\ ctxDone = FALSE
  /\ pc = "sweep"
  /\ retErr = "none"
  /\ round = "later"
  /\ scopeDone = FALSE
  /\ nSess = Len(watches)
  /\ listCnt = Len(watches)
  /\ exitCnt = 0
  /\ sess \in {[i \in DOMAIN s |-> [s[i] EXCEPT !.pc = "watch"]] : s \in Launch(watches)}
  /\ cbCount = 0
  /\ evCount = 0
  /\ snapshot = NoSnapshot
  /\ seen = EmptyMap
  /\ hist = InitHist

NextTail ==
  \/ Cancel
  \/ Checkpoint
  \/ \E i \in 1..MaxWatches : SessWatch(i)
  \/ \E i \in 1..MaxWatches : SessNext(i)
  \/ \E i \in 1..MaxWatches : SteadyEvent(i)
  \/ \E i \in 1..MaxWatches : SteadyExit(i)

SpecTail == InitTail /\ [][NextTail]_vars

----------------------------------------------------------------------------
(* Properties *)

InRound == pc \in {"catchup", "sweep", "steady"}

\* Every goroutine of the round has delivered its listing, the listings are
\* merged, and no exit has been received.
CaughtUp == InRound /\ nSess > 0 /\ listCnt = nSess /\ exitCnt = 0

\* C1: in a round the callback is not invoked and no watch event is applied
\* before every goroutine of the round has delivered its listing and the
\* listing has been merged.
C1_CheckpointFirst ==
  InRound /\ listCnt < nSess => cbCount = 0 /\ evCount = 0

\* A round in which one listing has been merged and changed the store,
\* another is still awaited, and no callback was made.
C1_Witness ==
  /\ pc = "catchup"
  /\ 0 < listCnt
  /\ listCnt < nSess
  /\ dirty
  /\ \E k \in DOMAIN store : store[k] # EmptyMap
  /\ cbCount = 0

\* C2: once the context is canceled Run goes on to return: while it has not,
\* the program can take a step (a round with goroutines is considered).
C2_CancelReturns ==
  ctxDone /\ InRound /\ nSess > 0 => ENABLED ProgramStep

\* C3: when every goroutine has delivered its listing and none has exited,
\* the coordinator is past the catch-up loop: at the sweep and checkpoint,
\* or consuming watch events.
C3_LeavesCatchup ==
  CaughtUp => pc \in {"sweep", "steady"}

\* C4: at the end of a round's catch-up no uid is left in the store that the
\* listings of the round did not deliver.
C4_OmittedRemoved ==
  CaughtUp /\ pc # "sweep" /\ evCount = 0
    => \A k \in DOMAIN store : DOMAIN store[k] \subseteq Observed(newUids, k)

\* C5: after a goroutine has exited with Expired in a round whose listings
\* were all delivered, and with the context not canceled, the round goes on
\* to its end and a fresh round: until then the program can take a step.
C5_ExpiryRestarts ==
  InRound /\ hist.expired /\ ~ctxDone => ENABLED ProgramStep

C7_IdempotentRelist ==
  round = "later" /\ pc = "catchup" /\ hist.same
    => ~hist.changed /\ ~dirty /\ cbCount = 0

\* A later round whose two goroutines have both relisted what the store
\* held, nothing omitted.
C7_Witness ==
  /\ round = "later"
  /\ pc = "catchup"
  /\ hist.same
  /\ nSess = 2
  /\ listCnt = nSess
  /\ \E k \in DOMAIN store : store[k] # EmptyMap
  /\ \A k \in DOMAIN store : DOMAIN store[k] \subseteq Observed(newUids, k)
  /\ ~dirty

C9_ReturnsCancelError ==
  /\ pc = "returned" => ctxDone /\ retErr = "Canceled"
  /\ pc # "returned" => retErr = "none"

\* Run returned after a round had ended and another had been started.
C9_Witness ==
  pc = "returned" /\ round = "later" /\ retErr = "Canceled"

\* C10: once Run has been called the registrations do not change.
C10_RegistrationFrozen ==
  [][pc # "idle" => watches' = watches]_vars

\* C11: the mutations merged in one round's catch-up produce exactly one
\* callback: at the end of the catch-up, if the round changed the store (or
\* created a kind's map), one callback has been made.
C11_Coalesced ==
  CaughtUp /\ pc # "sweep" /\ evCount = 0 /\ dirty => cbCount = 1

Streaming == {"watch", "next", "sendEvent"}

Over(i) == sess[i].pc = "done"

\* C12: w.run has returned only when every goroutine it launched has
\* signalled its exit, and during a round exitCnt counts the goroutines that
\* are over, each once: at a round boundary and after Run has returned no
\* goroutine is alive.
C12_RoundDrained ==
  /\ pc \in {"top", "returned"} => \A i \in DOMAIN sess : Over(i)
  /\ InRound => exitCnt = Cardinality({i \in DOMAIN sess : Over(i)})

\* Between two rounds, after a round of two goroutines that both ended.
C12_Witness ==
  /\ pc = "top"
  /\ round # "none"
  /\ nSess = 2
  /\ Len(sess) = 2
  /\ \A i \in DOMAIN sess : Over(i)

C16_StoreIsListing ==
  CaughtUp /\ pc # "sweep" /\ evCount = 0
    => \A k \in Range(watches) : DOMAIN MapGet(store, k) = Observed(newUids, k)

\* C17: once the round's scope is canceled no listing batch and no event is
\* received from a goroutine any more.
C17_SilentAfterCancel ==
  [][InRound /\ ScopeDone => listCnt' <= listCnt /\ evCount' <= evCount]_vars

\* C18: in a round a goroutine delivers one listing batch, before it reads
\* any watch event, and never lists again: a step that counts a listing is
\* the delivery of a goroutine that had not delivered, a goroutine that has
\* delivered is never back at List, and listCnt is at least the number of
\* goroutines that are streaming and at most the number that are past List.
C18_OneListing ==
  [][ /\ \A i \in DOMAIN sess :
           /\ sess[i].pc \in Streaming /\ i \in DOMAIN sess'
                => sess'[i].pc \notin {"list", "sendList"}
           /\ i \in DOMAIN sess' /\ sess'[i].pc \in Streaming
                => sess[i].pc \in Streaming \cup {"sendList"}
      /\ listCnt' = listCnt + 1
           => \E i \in DOMAIN sess :
                /\ sess[i].pc = "sendList"
                /\ sess'[i].pc = "watch"
                /\ \A j \in DOMAIN sess \ {i} : sess'[j] = sess[j]
      /\ InRound' =>
           /\ listCnt' >= Cardinality({i \in DOMAIN sess' : sess'[i].pc \in Streaming})
           /\ listCnt' <= Cardinality({i \in DOMAIN sess' :
                                         sess'[i].pc \notin {"list", "sendList"}})
    ]_vars

\* Both goroutines have delivered; one holds an event, the other is about
\* to open its watch.
C18_Witness ==
  /\ pc = "catchup"
  /\ nSess = 2
  /\ listCnt = 2
  /\ \E i \in DOMAIN sess : sess[i].pc = "sendEvent"
  /\ \E i \in DOMAIN sess : sess[i].pc = "watch"

\* C19: when the round before was aborted during its catch-up after it had
\* merged records into the store, the round that reaches its checkpoint
\* invokes the callback: at the end of its catch-up dirty is set, or the
\* sweep is going to set it.
C19_NoStaleView ==
  CaughtUp /\ pc # "sweep" /\ evCount = 0 /\ cbCount = 0 /\ hist.stale
    => dirty \/ SweepDirty(store, newUids)

\* C20: with no registration, while Run has not returned after the context
\* was canceled, the program can take a step.
C20_NoWatchesNoHang ==
  ctxDone /\ InRound /\ nSess = 0 /\ Len(watches) = 0 => ENABLED ProgramStep

====
